---- MODULE Spec2Model ----
(***************************************************************************)
(* Model of the notification pipeline of beefy-cowllector-v2:              *)
(*   src/src/util/bigint.ts   bigintPercent, bigintFormat                  *)
(*   src/src/lib/notify.ts    notifyHarvestReport, notifyUnwrapReport,     *)
(*                            getBalanceReportTable, notifyError           *)
(*   src/unnamed/part_000     a second copy of the notifier (one webhook   *)
(*                            URL, no redaction, role ping not disabled);  *)
(*                            its definitions carry the suffix _part000    *)
(*                                                                         *)
(* Strings are sequences of words (each word a TLA+ string); a template    *)
(* literal is the concatenation of its pieces.  A bigint is its sign and   *)
(* its decimal digits, so amounts above 2^53 are represented exactly.      *)
(***************************************************************************)
EXTENDS Integers, Sequences, FiniteSets, TLC

VARIABLES
    config,   \* the values imported from ./config, fixed for a process
    pc,       \* "idle", or "awaiting" while an axios.post is in flight
    call,     \* the arguments of the current (or last) notify call
    posts,    \* the axios.post calls of the current (or last) notify call
    logs,     \* the logger calls of the current (or last) notify call
    outcome,  \* "none", "pending", "returned" or "threw"
    fmt,      \* a call of bigintFormat / a cell of the balance table
    pct       \* a call of bigintPercent

vars == <<config, pc, call, posts, logs, outcome, fmt, pct>>
notifyVars == <<config, pc, call, posts, logs, outcome>>

(***************************************************************************)
(* Bounds of the model.                                                    *)
(***************************************************************************)
MaxCount == 1      \* largest value of a summary counter
MaxDigits == 3     \* longest enumerated amount, in decimal digits
MaxRaw == 12       \* largest |n| handed to bigintPercent

(***************************************************************************)
(* util/bigint.ts                                                          *)
(***************************************************************************)
RECURSIVE Pow10(_)
Pow10(k) == IF k = 0 THEN 1 ELSE 10 * Pow10(k - 1)

\* BigInt division truncates toward zero.
TruncDiv(a, b) ==
    IF a >= 0 THEN a \div b ELSE -((-a) \div b)

\* A JS number that is a decimal fraction num/den; Math.round(percent * divisor)
\* rounds half toward +Infinity.
MathRoundTimes(percent, divisor) ==
    (2 * percent.num * divisor + percent.den) \div (2 * percent.den)

DefaultPrecision == 4

bigintPercentPerHundred(n, percent, precision) ==
    LET divisor == Pow10(precision)
        mult    == MathRoundTimes(percent, divisor)
    IN  TruncDiv(n * mult, divisor * 100)

bigintPercent(n, percent, precision) ==
    LET divisor == Pow10(precision)
        mult    == MathRoundTimes(percent, divisor)
    IN  TruncDiv(n * mult, divisor)

\* Decimal digits of a non-negative bigint: drop leading zeros, keep one digit.
RECURSIVE StripZeros(_)
StripZeros(ds) ==
    IF Len(ds) > 1 /\ Head(ds) = "0" THEN StripZeros(Tail(ds)) ELSE ds

\* (n % 10^k).toString() on the digits of n >= 0
ModPow10(ds, k) ==
    IF k = 0 THEN <<"0">>
    ELSE IF k >= Len(ds) THEN ds
    ELSE StripZeros(SubSeq(ds, Len(ds) - k + 1, Len(ds)))

\* (n / 10^k).toString() on the digits of n >= 0
DivPow10(ds, k) ==
    IF k >= Len(ds) THEN <<"0">> ELSE SubSeq(ds, 1, Len(ds) - k)

\* String.prototype.padStart(len, ch)
RECURSIVE padStart(_, _, _)
padStart(s, len, ch) ==
    IF Len(s) >= len THEN s ELSE padStart(<<ch>> \o s, len, ch)

\* bigintFormat(n, decimal): a third argument passed by a caller binds to no
\* parameter and is never read.
bigintFormat(n, decimal) ==
    LET sign        == IF n.neg THEN <<"-">> ELSE <<>>
        decimalPart == padStart(ModPow10(n.digits, decimal), decimal, "0")
        integerPart == DivPow10(n.digits, decimal)
    IN  sign \o integerPart \o <<".">> \o decimalPart


(***************************************************************************)
(* Inputs of the two pure functions.                                       *)
(***************************************************************************)
AmountDigits == {"0", "1", "5"}

\* 50000000000000 = 0.00005 at 18 decimals
FiftyMicro ==
    <<"5","0","0","0","0","0","0","0","0","0","0","0","0","0">>

\* 1234567890123456789012, above 2^53 and above 10^18
LargeAmount ==
    <<"1","2","3","4","5","6","7","8","9","0","1","2","3","4","5","6","7","8",
      "9","0","1","2">>

DigitStrings ==
    UNION {{s \in [1..len -> AmountDigits] : len = 1 \/ s[1] # "0"} :
             len \in 1..MaxDigits}
      \cup {FiftyMicro, LargeAmount}

\* bigint values: no negative zero
Amounts ==
    {[neg |-> b, digits |-> d] : b \in BOOLEAN, d \in DigitStrings}
      \ {[neg |-> TRUE, digits |-> <<"0">>]}

WeiDecimals == 18     \* second argument of every bigintFormat call of notify
DisplayDigits == 6    \* third argument of every bigintFormat call of notify

FormatArgs ==
    {<<2, 0>>, <<2, 1>>, <<2, 2>>, <<WeiDecimals, DisplayDigits>>,
     <<WeiDecimals, WeiDecimals>>}

Settled == {"fulfilled", "rejected", "absent"}

Percents ==
    {[num |-> 0, den |-> 1], [num |-> 1, den |-> 1], [num |-> 100, den |-> 1],
     [num |-> 5, den |-> 10], [num |-> 15, den |-> 10],
     [num |-> 4, den |-> 100000], [num |-> 12346, den |-> 100000],
     [num |-> -5, den |-> 10]}

Precisions == 0..DefaultPrecision

(***************************************************************************)
(* lib/notify.ts: getBalanceReportTable's cells                            *)
(***************************************************************************)
\* util/async asyncResultGet: the mapped value of a fulfilled outcome, else a
\* falsy "unavailable" marker (the empty string here).
asyncResultGet(settled, mapFn) ==
    IF settled.status = "fulfilled" THEN mapFn[settled.value] ELSE <<>>

\* a || '??'
OrUnknown(s) == IF s = <<>> THEN <<"?", "?">> ELSE s

\* asyncResultGet(report.collectorBalanceBefore,
\*                b => bigintFormat(b.balanceWei, 18, 6)) || '??'
balanceCell(settled) ==
    OrUnknown(asyncResultGet(settled,
                             [b \in Amounts |-> bigintFormat(b, WeiDecimals)]))

\* bigintFormat(report.summary.nativeGasUsedWei, 18, 6) || '??'
profitCell(n) == OrUnknown(bigintFormat(n, WeiDecimals))

FmtIdle ==
    [n |-> [neg |-> FALSE, digits |-> <<"0">>], decimal |-> 0,
     displayDigits |-> 0, settled |-> "absent", op |-> "idle", out |-> <<>>]

PctIdle ==
    [n |-> 0, percent |-> [num |-> 0, den |-> 1], precision |-> 0,
     done |-> FALSE, out |-> 0]

(***************************************************************************)
(* lib/config, lib/reports and the other collaborators of notify           *)
(***************************************************************************)
NotSet == ""                       \* an unset (falsy) configuration string
ReportWebhook == "https://discord/report-hook"
AlertWebhook == "https://discord/alert-hook"
SecretWord == "rpc-api-key"        \* a configured secret
Secrets == {SecretWord}
RedactedWord == "<redacted>"

\* DISCORD_PING_ROLE_IDS_ON_ERROR: unset, or a list of role ids
RoleIdLists ==
    {[set |-> FALSE, ids |-> <<>>], [set |-> TRUE, ids |-> <<>>],
     [set |-> TRUE, ids |-> <<"role1">>]}

Configs ==
    [DISCORD_REPORT_WEBHOOK_URL : {NotSet, ReportWebhook},
     DISCORD_ALERT_WEBHOOK_URL : {NotSet, AlertWebhook},
     DISCORD_NOTIFY_UNEVENTFUL_HARVEST : BOOLEAN,
     DISCORD_PING_ROLE_IDS_ON_ERROR : RoleIdLists]

\* lib/reports removeSecretsFromString: every occurrence of a secret is
\* replaced by a fixed placeholder.
removeSecretsFromString(text) ==
    [i \in DOMAIN text |->
       IF text[i] \in Secrets THEN RedactedWord ELSE text[i]]

\* lib/error-message extractErrorMessage: the text of a rejection
extractErrorMessage(settled) == settled.reason

toLocaleUpperCase(chain) ==
    CASE chain = "bsc" -> "BSC"
      [] chain = "linea" -> "LINEA"

\* roleId => <@&${roleId}>
RoleMention(roleId) ==
    CASE roleId = "role1" -> "<@&role1>"

Mentions == {RoleMention("role1")}

\* an array interpolated into a template literal
RECURSIVE MapRoleMention(_)
MapRoleMention(ids) ==
    IF ids = <<>> THEN <<>>
    ELSE <<RoleMention(Head(ids))>> \o MapRoleMention(Tail(ids))

(***************************************************************************)
(* The reports handed to notify.                                           *)
(***************************************************************************)
Counts == 0..MaxCount
Chains == {"bsc"}
ReportIds == {0, 7}                \* db_raw_report_id: 0 stands for null

PlainMessage == <<"gas", "too", "high">>
SecretMessage == <<"rpc", SecretWord, "unreachable">>

\* report.details of notify.ts: each has summary.discordMessage, maybe empty
DetailLists ==
    {<<>>, <<[discordMessage |-> PlainMessage]>>,
     <<[discordMessage |-> <<>>], [discordMessage |-> SecretMessage]>>}

HarvestReports ==
    [chain : Chains,
     summary : [totalStrategies : Counts, skipped : Counts,
                harvested : Counts,
                statuses : [error : Counts, warning : Counts,
                            notice : Counts, info : Counts]],
     details : DetailLists]

\* report.details of part_000: status, decision.warning, notHarvestingReason
DetailLists_part000 ==
    {<<>>,
     <<[status |-> "warning", hasDecision |-> TRUE, warning |-> TRUE,
        notHarvestingReason |-> PlainMessage]>>,
     <<[status |-> "ok", hasDecision |-> TRUE, warning |-> FALSE,
        notHarvestingReason |-> PlainMessage],
       [status |-> "warning", hasDecision |-> TRUE, warning |-> TRUE,
        notHarvestingReason |-> SecretMessage]>>}

HarvestReports_part000 ==
    [chain : Chains,
     summary : [totalStrategies : Counts, skipped : Counts,
                harvested : Counts,
                statuses : [error : Counts, warning : Counts,
                            silentError : Counts]],
     details : DetailLists_part000]

SettledResults ==
    {[status |-> "absent", reason |-> <<>>],
     [status |-> "fulfilled", reason |-> <<>>],
     [status |-> "rejected", reason |-> <<"timeout">>],
     [status |-> "rejected", reason |-> SecretMessage]}

UnwrapReports ==
    [chain : Chains,
     summary : [success : BOOLEAN, unwrapped : BOOLEAN],
     unwrapDecision : SettledResults,
     unwrapTransaction : SettledResults]

UnwrapReports_part000 ==
    [chain : Chains, summary : [success : BOOLEAN, unwrapped : BOOLEAN]]

\* notifyError(ctx, error): ctx.doing, JSON.stringify(ctx.data), String(error)
ErrorCalls ==
    [doing : {<<"harvesting", "bsc">>},
     data : {<<"{}">>, <<"{", "rpc:", SecretWord, "}">>},
     error : {<<"Error:", "boom">>, <<"Error:", SecretWord, "refused">>}]

(***************************************************************************)
(* lib/notify.ts                                                           *)
(***************************************************************************)
codeSep == "[code-fence]"             \* const codeSep

\* a gate that never closes
webhookMissingNever(url) == FALSE

\* !DISCORD_REPORT_WEBHOOK_URL, !DISCORD_ALERT_WEBHOOK_URL
webhookMissing(url) == url = NotSet

\* an uneventful test that asks for a skipped strategy as well
uneventfulHarvestStrict(summary) ==
    /\ summary.harvested = 0
    /\ summary.statuses.error = 0
    /\ summary.statuses.warning = 0
    /\ summary.statuses.notice = 0
    /\ summary.skipped > 0

uneventfulHarvest(summary) ==
    /\ summary.harvested = 0
    /\ summary.statuses.error = 0
    /\ summary.statuses.warning = 0
    /\ summary.statuses.notice = 0

\* the level with the warning test first
harvestReportLevelWarningFirst(summary) ==
    IF summary.statuses.warning > 0 THEN "WARNING"
    ELSE IF summary.statuses.error > 0 THEN "ERROR"
    ELSE "INFO"

harvestReportLevel(summary) ==
    IF summary.statuses.error > 0 THEN "ERROR"
    ELSE IF summary.statuses.warning > 0 THEN "WARNING"
    ELSE "INFO"

RECURSIVE harvestErrorDetails(_)
harvestErrorDetails(details) ==
    IF details = <<>> THEN <<>>
    ELSE (IF Head(details).discordMessage # <<>>
            THEN Head(details).discordMessage \o <<"\n">>
            ELSE <<>>)
         \o harvestErrorDetails(Tail(details))

\* the literal false of "disable role ping for now"
PING_ENABLED == FALSE

\* the role ping without the hardcoded false
harvestRolePingNotDisabled(summary, cfg) ==
    IF /\ (\/ summary.statuses.error > 0
           \/ summary.statuses.warning > 0
           \/ cfg.DISCORD_NOTIFY_UNEVENTFUL_HARVEST)
       /\ cfg.DISCORD_PING_ROLE_IDS_ON_ERROR.set
    THEN MapRoleMention(cfg.DISCORD_PING_ROLE_IDS_ON_ERROR.ids)
    ELSE <<>>

harvestRolePing(summary, cfg) ==
    IF /\ (\/ summary.statuses.error > 0
           \/ summary.statuses.warning > 0
           \/ cfg.DISCORD_NOTIFY_UNEVENTFUL_HARVEST)
       /\ cfg.DISCORD_PING_ROLE_IDS_ON_ERROR.set
       /\ PING_ENABLED
    THEN MapRoleMention(cfg.DISCORD_PING_ROLE_IDS_ON_ERROR.ids)
    ELSE <<>>

\* [full report](${reportUrl})
reportUrlMarkdown(id) ==
    IF id # 0 THEN <<"[full report](", "report-url", ")">>
    ELSE <<"[full report](", ")">>

\* the template literal of notifyHarvestReport, before redaction
harvestTemplate(report, id, cfg) ==
    <<"### Harvest", harvestReportLevel(report.summary), "for",
      toLocaleUpperCase(report.chain)>>
      \o reportUrlMarkdown(id)
      \o <<codeSep, "strat-count-table", "balance-table", codeSep>>
      \o harvestErrorDetails(report.details)
      \o harvestRolePing(report.summary, cfg)

harvestContent(report, id, cfg) ==
    removeSecretsFromString(harvestTemplate(report, id, cfg))

\* an uneventful test that forgets the failed unwraps
uneventfulUnwrapFailedOnly(summary) ==
    summary.success = FALSE /\ summary.unwrapped = FALSE

uneventfulUnwrap(summary) ==
    summary.success = TRUE /\ summary.unwrapped = FALSE

unwrapReportLevel(summary) ==
    IF ~summary.success THEN "ERROR" ELSE "INFO"

unwrapErrorDetails(report) ==
    (IF report.unwrapDecision.status = "rejected"
       THEN <<"- Unwrap decision failed:">>
              \o extractErrorMessage(report.unwrapDecision) \o <<"\n">>
       ELSE <<>>)
    \o (IF report.unwrapTransaction.status = "rejected"
          THEN <<"- Unwrap transaction failed:">>
                 \o extractErrorMessage(report.unwrapTransaction) \o <<"\n">>
          ELSE <<>>)

unwrapRolePing(summary, cfg) ==
    IF /\ (~summary.success \/ cfg.DISCORD_NOTIFY_UNEVENTFUL_HARVEST)
       /\ cfg.DISCORD_PING_ROLE_IDS_ON_ERROR.set
       /\ PING_ENABLED
    THEN MapRoleMention(cfg.DISCORD_PING_ROLE_IDS_ON_ERROR.ids)
    ELSE <<>>

unwrapTemplate(report, id, cfg) ==
    <<"### Wnative unwrap", unwrapReportLevel(report.summary), "for",
      toLocaleUpperCase(report.chain)>>
      \o reportUrlMarkdown(id)
      \o (IF report.summary.unwrapped
            THEN <<codeSep, "balance-table", codeSep>> ELSE <<>>)
      \o unwrapErrorDetails(report)
      \o unwrapRolePing(report.summary, cfg)

unwrapContent(report, id, cfg) ==
    removeSecretsFromString(unwrapTemplate(report, id, cfg))

errorTemplate(ctx) ==
    <<"### ERROR while">> \o ctx.doing \o <<codeSep>> \o ctx.error
      \o <<codeSep, codeSep>> \o ctx.data \o <<codeSep>>

errorContent(ctx) == removeSecretsFromString(errorTemplate(ctx))

\* report_${report.chain}.json
reportFileName(chain) ==
    CASE chain = "bsc" -> "report_bsc.json"
      [] chain = "linea" -> "report_linea.json"

\* axios.post(url, form), form = payload_json [+ file1]
Post(url, content, file) ==
    [url |-> url, content |-> content, file |-> file, status |-> "pending"]

(***************************************************************************)
(* part_000                                                                *)
(***************************************************************************)
uneventfulHarvest_part000(summary) ==
    /\ summary.harvested = 0
    /\ summary.statuses.error = 0
    /\ summary.statuses.warning = 0

harvestReportLevel_part000(summary) ==
    IF summary.statuses.error > 0 THEN "ERROR"
    ELSE IF summary.statuses.warning > 0 THEN "WARNING"
    ELSE "INFO"

RECURSIVE warningLines_part000(_)
warningLines_part000(details) ==
    IF details = <<>> THEN <<>>
    ELSE (IF /\ Head(details).status = "warning"
             /\ Head(details).hasDecision
             /\ Head(details).warning
            THEN <<"-", "vault-link", "strat-link">>
                   \o Head(details).notHarvestingReason \o <<"\n">>
            ELSE <<>>)
         \o warningLines_part000(Tail(details))

warningDetails_part000(report) ==
    IF report.summary.statuses.warning > 0
    THEN warningLines_part000(report.details)
    ELSE <<>>

harvestRolePing_part000(summary, cfg) ==
    IF /\ (\/ summary.statuses.error > 0
           \/ summary.statuses.warning > 0
           \/ cfg.DISCORD_NOTIFY_UNEVENTFUL_HARVEST)
       /\ cfg.DISCORD_PING_ROLE_IDS_ON_ERROR.set
    THEN MapRoleMention(cfg.DISCORD_PING_ROLE_IDS_ON_ERROR.ids)
    ELSE <<>>

\* the template literal of part_000's notifyHarvestReport, sent as it is
harvestContent_part000(report, cfg) ==
    <<"### Harvest", harvestReportLevel_part000(report.summary), "for",
      toLocaleUpperCase(report.chain)>>
      \o <<codeSep, "strat-count-table", "balance-table", codeSep>>
      \o warningDetails_part000(report)
      \o harvestRolePing_part000(report.summary, cfg)

unwrapRolePing_part000(summary, cfg) ==
    IF /\ (~summary.success \/ cfg.DISCORD_NOTIFY_UNEVENTFUL_HARVEST)
       /\ cfg.DISCORD_PING_ROLE_IDS_ON_ERROR.set
    THEN MapRoleMention(cfg.DISCORD_PING_ROLE_IDS_ON_ERROR.ids)
    ELSE <<>>

unwrapContent_part000(report, cfg) ==
    <<"### Wnative unwrap", unwrapReportLevel(report.summary), "for",
      toLocaleUpperCase(report.chain)>>
      \o (IF report.summary.unwrapped
            THEN <<codeSep, "balance-table", codeSep>> ELSE <<>>)
      \o unwrapRolePing_part000(report.summary, cfg)

(***************************************************************************)
(* Spec: the notify calls.  A behaviour follows one call from its entry to *)
(* its return: a call reads only its arguments and the configuration and   *)
(* keeps nothing for the next one, so every call starts from the state a   *)
(* first call starts from.  A call is one step up to its await of          *)
(* axios.post, and a second step when the post settles.                    *)
(***************************************************************************)
NoCall == [fn |-> "none", source |-> "none"]

Init ==
    /\ config \in Configs
    /\ pc = "idle"
    /\ call = NoCall
    /\ posts = <<>>
    /\ logs = <<>>
    /\ outcome = "none"
    /\ fmt = FmtIdle
    /\ pct = PctIdle

\* a notify function is entered
Entered == pc = "idle" /\ outcome = "none"

\* return before any post, having logged l
Returns(l) ==
    /\ posts' = <<>>
    /\ logs' = l
    /\ pc' = "idle"
    /\ outcome' = "returned"

\* await axios.post(url, form), having logged l
Awaits(p, l) ==
    /\ posts' = <<p>>
    /\ logs' = l
    /\ pc' = "awaiting"
    /\ outcome' = "pending"

notifyHarvestReport ==
    /\ Entered
    /\ \E report \in HarvestReports, id \in ReportIds :
         /\ call' = [fn |-> "notifyHarvestReport", source |-> "notify.ts",
                     report |-> report, id |-> id]
         /\ IF webhookMissing(config.DISCORD_REPORT_WEBHOOK_URL)
            THEN Returns(<<"warn">>)
            ELSE IF /\ uneventfulHarvest(report.summary)
                    /\ ~config.DISCORD_NOTIFY_UNEVENTFUL_HARVEST
            THEN Returns(<<"info">>)
            ELSE Awaits(Post(config.DISCORD_REPORT_WEBHOOK_URL,
                             harvestContent(report, id, config),
                             reportFileName(report.chain)),
                        (IF uneventfulHarvest(report.summary)
                           THEN <<"info">> ELSE <<>>) \o <<"info">>)
    /\ UNCHANGED <<config, fmt, pct>>

notifyUnwrapReport ==
    /\ Entered
    /\ \E report \in UnwrapReports, id \in ReportIds :
         /\ call' = [fn |-> "notifyUnwrapReport", source |-> "notify.ts",
                     report |-> report, id |-> id]
         /\ IF webhookMissing(config.DISCORD_REPORT_WEBHOOK_URL)
            THEN Returns(<<"warn">>)
            ELSE IF /\ uneventfulUnwrap(report.summary)
                    /\ ~config.DISCORD_NOTIFY_UNEVENTFUL_HARVEST
            THEN Returns(<<"info">>)
            ELSE Awaits(Post(config.DISCORD_REPORT_WEBHOOK_URL,
                             unwrapContent(report, id, config),
                             reportFileName(report.chain)),
                        (IF uneventfulUnwrap(report.summary)
                           THEN <<"info">> ELSE <<>>) \o <<"info">>)
    /\ UNCHANGED <<config, fmt, pct>>

notifyError ==
    /\ Entered
    /\ \E ctx \in ErrorCalls :
         /\ call' = [fn |-> "notifyError", source |-> "notify.ts",
                     ctx |-> ctx]
         /\ IF webhookMissing(config.DISCORD_ALERT_WEBHOOK_URL)
            THEN Returns(<<"warn">>)
            ELSE Awaits(Post(config.DISCORD_ALERT_WEBHOOK_URL,
                             errorContent(ctx), ""),
                        <<"info">>)
    /\ UNCHANGED <<config, fmt, pct>>

\* part_000 reads its one webhook URL, DISCORD_WEBHOOK_URL, from the
\* configuration slot that notify.ts calls DISCORD_REPORT_WEBHOOK_URL.
notifyHarvestReport_part000 ==
    /\ Entered
    /\ \E report \in HarvestReports_part000 :
         /\ call' = [fn |-> "notifyHarvestReport", source |-> "part_000",
                     report |-> report]
         /\ IF webhookMissing(config.DISCORD_REPORT_WEBHOOK_URL)
            THEN Returns(<<"warn">>)
            ELSE IF /\ uneventfulHarvest_part000(report.summary)
                    /\ ~config.DISCORD_NOTIFY_UNEVENTFUL_HARVEST
            THEN Returns(<<"info">>)
            ELSE Awaits(Post(config.DISCORD_REPORT_WEBHOOK_URL,
                             harvestContent_part000(report, config),
                             reportFileName(report.chain)),
                        (IF uneventfulHarvest_part000(report.summary)
                           THEN <<"info">> ELSE <<>>) \o <<"info">>)
    /\ UNCHANGED <<config, fmt, pct>>

notifyUnwrapReport_part000 ==
    /\ Entered
    /\ \E report \in UnwrapReports_part000 :
         /\ call' = [fn |-> "notifyUnwrapReport", source |-> "part_000",
                     report |-> report]
         /\ IF webhookMissing(config.DISCORD_REPORT_WEBHOOK_URL)
            THEN Returns(<<"warn">>)
            ELSE IF /\ uneventfulUnwrap(report.summary)
                    /\ ~config.DISCORD_NOTIFY_UNEVENTFUL_HARVEST
            THEN Returns(<<"info">>)
            ELSE Awaits(Post(config.DISCORD_REPORT_WEBHOOK_URL,
                             unwrapContent_part000(report, config),
                             reportFileName(report.chain)),
                        (IF uneventfulUnwrap(report.summary)
                           THEN <<"info">> ELSE <<>>) \o <<"info">>)
    /\ UNCHANGED <<config, fmt, pct>>

SettleLast(ps, st) == [ps EXCEPT ![Len(ps)].status = st]

\* a catch block that logs nothing and throws again
onPostRejectedRethrow(ps, ls) ==
    [posts |-> SettleLast(ps, "rejected"), logs |-> ls, pc |-> "idle",
     outcome |-> "threw"]

\* a catch block that posts once more
onPostRejectedRetry(ps, ls) ==
    IF Len(ps) < 2
    THEN [posts |-> Append(SettleLast(ps, "rejected"),
                           [ps[Len(ps)] EXCEPT !.status = "pending"]),
          logs |-> ls \o <<"error", "trace">>, pc |-> "awaiting",
          outcome |-> "pending"]
    ELSE [posts |-> SettleLast(ps, "rejected"),
          logs |-> ls \o <<"error", "trace">>, pc |-> "idle",
          outcome |-> "returned"]

\* catch (e) { logger.error(...); logger.trace(e); } and the function ends
onPostRejected(ps, ls) ==
    [posts |-> SettleLast(ps, "rejected"),
     logs |-> ls \o <<"error", "trace">>, pc |-> "idle",
     outcome |-> "returned"]

\* the awaited post fulfils: the try block ends, the function returns
AxiosPostResolves ==
    /\ pc = "awaiting"
    /\ posts' = SettleLast(posts, "resolved")
    /\ pc' = "idle"
    /\ outcome' = "returned"
    /\ UNCHANGED <<config, call, logs, fmt, pct>>

\* the awaited post rejects: the catch block runs
AxiosPostRejects ==
    /\ pc = "awaiting"
    /\ LET r == onPostRejected(posts, logs)
       IN  /\ posts' = r.posts
           /\ logs' = r.logs
           /\ pc' = r.pc
           /\ outcome' = r.outcome
    /\ UNCHANGED <<config, call, fmt, pct>>

Next ==
    \/ notifyHarvestReport
    \/ notifyUnwrapReport
    \/ notifyError
    \/ notifyHarvestReport_part000
    \/ notifyUnwrapReport_part000
    \/ AxiosPostResolves
    \/ AxiosPostRejects

Spec == Init /\ [][Next]_vars

(***************************************************************************)
(* SpecFormat: bigintFormat and the cells of the balance table.            *)
(***************************************************************************)
InitFormat ==
    /\ \E n \in Amounts, a \in FormatArgs, st \in Settled :
         fmt = [n |-> n, decimal |-> a[1], displayDigits |-> a[2],
                settled |-> st, op |-> "none", out |-> <<>>]
    /\ pct = PctIdle
    /\ config = <<>> /\ pc = "idle" /\ call = <<>> /\ posts = <<>>
    /\ logs = <<>> /\ outcome = "none"

\* bigintFormat(n, decimal, displayDigits), as notify calls it
FormatAmount ==
    /\ fmt.op = "none"
    /\ fmt' = [fmt EXCEPT !.op = "bigintFormat",
                          !.out = bigintFormat(fmt.n, fmt.decimal)]
    /\ UNCHANGED <<notifyVars, pct>>

\* a "before" or "after" cell of getBalanceReportTable
RenderBalanceCell ==
    /\ fmt.op = "none"
    /\ fmt' = [fmt EXCEPT !.op = "balanceCell",
                          !.decimal = WeiDecimals,
                          !.displayDigits = DisplayDigits,
                          !.out = balanceCell([status |-> fmt.settled,
                                               value |-> fmt.n])]
    /\ UNCHANGED <<notifyVars, pct>>

\* a "profit" cell of getBalanceReportTable
RenderProfitCell ==
    /\ fmt.op = "none"
    /\ fmt' = [fmt EXCEPT !.op = "profitCell",
                          !.decimal = WeiDecimals,
                          !.displayDigits = DisplayDigits,
                          !.settled = "fulfilled",
                          !.out = profitCell(fmt.n)]
    /\ UNCHANGED <<notifyVars, pct>>

NextFormat == FormatAmount \/ RenderBalanceCell \/ RenderProfitCell

SpecFormat == InitFormat /\ [][NextFormat]_vars

(***************************************************************************)
(* SpecPercent: bigintPercent.                                             *)
(***************************************************************************)
InitPercent ==
    /\ \E n \in (-MaxRaw)..MaxRaw, pc0 \in Percents, pr \in Precisions :
         pct = [n |-> n, percent |-> pc0, precision |-> pr,
                done |-> FALSE, out |-> 0]
    /\ fmt = FmtIdle
    /\ config = <<>> /\ pc = "idle" /\ call = <<>> /\ posts = <<>>
    /\ logs = <<>> /\ outcome = "none"

\* bigintPercent(n, percent, precision)
ApplyPercent ==
    /\ ~pct.done
    /\ pct' = [pct EXCEPT !.done = TRUE,
                          !.out = bigintPercent(pct.n, pct.percent,
                                                pct.precision)]
    /\ UNCHANGED <<notifyVars, fmt>>

\* bigintPercent(n, percent): precision takes its default
ApplyPercentDefault ==
    /\ ~pct.done
    /\ pct' = [pct EXCEPT !.done = TRUE,
                          !.precision = DefaultPrecision,
                          !.out = bigintPercent(pct.n, pct.percent,
                                                DefaultPrecision)]
    /\ UNCHANGED <<notifyVars, fmt>>

NextPercent == ApplyPercent \/ ApplyPercentDefault

SpecPercent == InitPercent /\ [][NextPercent]_vars

(***************************************************************************)
(* Properties of the notify calls (checked under Spec).                    *)
(***************************************************************************)
IsHarvestCall == call.fn = "notifyHarvestReport"
IsUnwrapCall == call.fn = "notifyUnwrapReport"
IsErrorCall == call.fn = "notifyError"
Flag == config.DISCORD_NOTIFY_UNEVENTFUL_HARVEST

Logged(level) == \E j \in DOMAIN logs : logs[j] = level

\* the severity word of a report message's header
LevelOf(content) == content[2]

Rank(level) ==
    CASE level = "INFO" -> 0 [] level = "WARNING" -> 1 [] level = "ERROR" -> 2

\* the endpoint a call posts to
EndpointOfCall ==
    IF IsErrorCall THEN config.DISCORD_ALERT_WEBHOOK_URL
    ELSE config.DISCORD_REPORT_WEBHOOK_URL

\* the message text of the current call as assembled, before any redaction
TemplateOfCall ==
    CASE IsHarvestCall /\ call.source = "notify.ts" ->
           harvestTemplate(call.report, call.id, config)
      [] IsHarvestCall /\ call.source = "part_000" ->
           harvestContent_part000(call.report, config)
      [] IsUnwrapCall /\ call.source = "notify.ts" ->
           unwrapTemplate(call.report, call.id, config)
      [] IsUnwrapCall /\ call.source = "part_000" ->
           unwrapContent_part000(call.report, config)
      [] IsErrorCall -> errorTemplate(call.ctx)

\* C1: when the post of a notify call fails, the failure is logged at error
\* severity and the call returns normally; no call ever throws.
C1_TransportFailureIsSwallowed ==
    /\ outcome # "threw"
    /\ \A i \in DOMAIN posts :
         posts[i].status = "rejected" =>
           /\ outcome = "returned"
           /\ pc = "idle"
           /\ Logged("error")

C1_Witness ==
    /\ IsErrorCall
    /\ Len(posts) = 1 /\ posts[1].status = "rejected"
    /\ outcome = "returned" /\ Logged("error")

\* C2 (as claimed): the content of every post is the redactor's output on
\* the assembled message text, so it holds no secret.
C2_ContentIsRedacted ==
    \A i \in DOMAIN posts :
      /\ posts[i].content = removeSecretsFromString(TemplateOfCall)
      /\ \A k \in DOMAIN posts[i].content : posts[i].content[k] \notin Secrets

\* the summary counters the claim names are all zero (part_000's summary has
\* no notice counter)
AllCountsZero ==
    /\ call.report.summary.harvested = 0
    /\ call.report.summary.statuses.error = 0
    /\ call.report.summary.statuses.warning = 0
    /\ call.source = "notify.ts" => call.report.summary.statuses.notice = 0

\* C3: a harvest report with harvested, error, warning and notice all zero,
\* the endpoint being configured: without notifyUneventful nothing is posted,
\* with it the report is posted once, at level INFO.
C3_UneventfulHarvest ==
    (IsHarvestCall /\ AllCountsZero /\ EndpointOfCall # NotSet) =>
      IF Flag
      THEN Len(posts) = 1 /\ LevelOf(posts[1].content) = "INFO"
      ELSE posts = <<>> /\ outcome = "returned"

C3_Witness ==
    /\ IsHarvestCall /\ call.source = "notify.ts" /\ AllCountsZero
    /\ EndpointOfCall # NotSet /\ Flag
    /\ Len(posts) = 1 /\ posts[1].status = "resolved"
    /\ LevelOf(posts[1].content) = "INFO"

\* C4: an unwrap report with success = true and unwrapped = false is never
\* posted when notifyUneventful is false.
C4_UneventfulUnwrapNotPosted ==
    (/\ IsUnwrapCall
     /\ call.report.summary.success
     /\ ~call.report.summary.unwrapped
     /\ ~Flag) => posts = <<>>

C4_Witness ==
    /\ IsUnwrapCall /\ call.source = "notify.ts"
    /\ call.report.summary.success /\ ~call.report.summary.unwrapped
    /\ ~Flag /\ EndpointOfCall # NotSet
    /\ posts = <<>> /\ outcome = "returned" /\ logs = <<"info">>

\* C5: when the endpoint of a call is not configured, the call posts nothing
\* and returns normally (after a warn log), whatever the report and the flag.
C5_MissingEndpointGate ==
    (call.fn # "none" /\ EndpointOfCall = NotSet) =>
      /\ posts = <<>>
      /\ outcome = "returned"
      /\ logs = <<"warn">>

C5_Witness ==
    /\ IsHarvestCall /\ call.source = "notify.ts"
    /\ EndpointOfCall = NotSet /\ Flag
    /\ call.report.summary.statuses.error > 0
    /\ call.report.summary.harvested > 0
    /\ posts = <<>> /\ outcome = "returned"

\* the level the code computes for a summary
CodeLevel(summary) ==
    IF call.source = "notify.ts" THEN harvestReportLevel(summary)
    ELSE harvestReportLevel_part000(summary)

\* the counters of a harvest summary other than error and warning
OtherCounts ==
    IF call.source = "notify.ts"
    THEN {"totalStrategies", "skipped", "harvested", "notice", "info"}
    ELSE {"totalStrategies", "skipped", "harvested", "silentError"}

WithCount(summary, f, v) ==
    IF f \in {"totalStrategies", "skipped", "harvested"}
    THEN [summary EXCEPT ![f] = v]
    ELSE [summary EXCEPT !.statuses[f] = v]

\* C6: a posted harvest message is at level ERROR if statuses.error > 0,
\* else WARNING if statuses.warning > 0, else INFO; changing any other
\* counter leaves the level as it is, and one more error never lowers it.
C6_HarvestLevel ==
    IsHarvestCall =>
      \A i \in DOMAIN posts :
        LET s  == call.report.summary
            lv == LevelOf(posts[i].content)
        IN  /\ lv = IF s.statuses.error > 0 THEN "ERROR"
                    ELSE IF s.statuses.warning > 0 THEN "WARNING"
                    ELSE "INFO"
            /\ \A f \in OtherCounts, v \in Counts :
                 CodeLevel(WithCount(s, f, v)) = lv
            /\ Rank(CodeLevel([s EXCEPT !.statuses.error = @ + 1]))
                 >= Rank(lv)

C6_Witness ==
    /\ IsHarvestCall /\ call.source = "notify.ts"
    /\ call.report.summary.statuses.error > 0
    /\ call.report.summary.statuses.warning > 0
    /\ call.report.summary.statuses.info > 0
    /\ Len(posts) = 1 /\ LevelOf(posts[1].content) = "ERROR"

\* C7: a notify call posts at most once: a failed post is not tried again,
\* and the call returns only when its one post has fulfilled or failed.
C7_SingleAttempt ==
    /\ Len(posts) <= 1
    /\ outcome = "returned" =>
         \A i \in DOMAIN posts : posts[i].status # "pending"
    /\ pc = "awaiting" =>
         /\ outcome = "pending"
         /\ Len(posts) = 1
         /\ posts[1].status = "pending"

C7_Witness ==
    /\ IsHarvestCall
    /\ pc = "idle" /\ outcome = "returned"
    /\ Len(posts) = 1 /\ posts[1].status = "rejected"

HasMention(content) == \E k \in DOMAIN content : content[k] \in Mentions

\* the global ping switch: the hardcoded false of notify.ts; part_000 has no
\* switch, its pings are on
PingEnabledFor(source) == IF source = "notify.ts" THEN PING_ENABLED ELSE TRUE

\* C8: a report message carries a role mention only when the level is
\* WARNING or ERROR or the uneventful flag is set, and a role list is
\* configured, and pings are enabled.
C8_RolePingOnlyWhenEnabled ==
    (IsHarvestCall \/ IsUnwrapCall) =>
      \A i \in DOMAIN posts :
        HasMention(posts[i].content) =>
          /\ (\/ LevelOf(posts[i].content) \in {"WARNING", "ERROR"}
              \/ Flag)
          /\ config.DISCORD_PING_ROLE_IDS_ON_ERROR.set
          /\ PingEnabledFor(call.source)

C8_Witness ==
    /\ IsHarvestCall /\ call.source = "part_000"
    /\ ~Flag
    /\ Len(posts) = 1 /\ HasMention(posts[1].content)
    /\ LevelOf(posts[1].content) = "WARNING"

\* What the claim expects of format(raw, scale, displayDigits): the fraction
\* padded to scale digits, then cut to displayDigits digits.
ExpectedFormat(n, scale, displayDigits) ==
    (IF n.neg THEN <<"-">> ELSE <<>>) \o DivPow10(n.digits, scale) \o <<".">>
      \o SubSeq(padStart(ModPow10(n.digits, scale), scale, "0"), 1,
                displayDigits)

\* C9 (as claimed): format(raw, scale, displayDigits) shows exactly
\* displayDigits fraction digits, cut (not rounded) from the fraction padded
\* to scale digits; format(50000000000000, 18, 6) is "0.000050"; every
\* available balance and profit cell of the balance table is rendered so.
C9_FormatTruncatesToDisplayDigits ==
    /\ fmt.op = "bigintFormat" =>
         fmt.out = ExpectedFormat(fmt.n, fmt.decimal, fmt.displayDigits)
    /\ (fmt.op = "bigintFormat" /\ fmt.n = [neg |-> FALSE, digits |-> FiftyMicro]
          /\ fmt.decimal = WeiDecimals /\ fmt.displayDigits = DisplayDigits) =>
         fmt.out = <<"0", ".", "0", "0", "0", "0", "5", "0">>
    /\ (fmt.op = "profitCell"
          \/ (fmt.op = "balanceCell" /\ fmt.settled = "fulfilled")) =>
         fmt.out = ExpectedFormat(fmt.n, WeiDecimals, DisplayDigits)

\* C10 (as claimed): percentageOf(raw, 100, 4) = raw and
\* percentageOf(raw, 0, p) = 0.
C10_HundredIsIdentity ==
    pct.done =>
      /\ (pct.percent = [num |-> 100, den |-> 1]
            /\ pct.precision = DefaultPrecision) => pct.out = pct.n
      /\ pct.percent.num = 0 => pct.out = 0

\* C10 (amended): percent is a plain multiplier: percentageOf(raw, 100, 4) is
\* raw * 100, percentageOf(raw, 1, 4) is raw, percentageOf(raw, 0, p) is 0,
\* and the result is raw * round(percent * 10^p) / 10^p in integers, the
\* division truncating toward zero.
C10_PercentIsMultiplier ==
    pct.done =>
      /\ (pct.percent = [num |-> 100, den |-> 1]
            /\ pct.precision = DefaultPrecision) => pct.out = pct.n * 100
      /\ (pct.percent = [num |-> 1, den |-> 1]
            /\ pct.precision = DefaultPrecision) => pct.out = pct.n
      /\ pct.percent.num = 0 => pct.out = 0
      /\ LET m == MathRoundTimes(pct.percent, Pow10(pct.precision))
             q == pct.out
             d == Pow10(pct.precision)
         IN  \* q is the quotient of n * m by d, truncated toward zero
             /\ (IF q >= 0 THEN q ELSE -q) * d
                  <= (IF pct.n * m >= 0 THEN pct.n * m ELSE -(pct.n * m))
             /\ (IF pct.n * m >= 0 THEN pct.n * m ELSE -(pct.n * m))
                  < ((IF q >= 0 THEN q ELSE -q) + 1) * d
             /\ (q > 0 => pct.n * m > 0) /\ (q < 0 => pct.n * m < 0)

C10_Witness ==
    /\ pct.done /\ pct.percent = [num |-> 100, den |-> 1]
    /\ pct.precision = DefaultPrecision /\ pct.n = MaxRaw
    /\ pct.out = MaxRaw * 100

====
